---- MODULE Spec2Model ----
(***************************************************************************)
(* A model of the DS1631 temperature-sensor driver (DS1631.cpp).           *)
(*                                                                         *)
(* Temperatures that the C++ code holds in a float are held here as an     *)
(* integer count of sixteenths of a degree (0.0625 degC): every value the  *)
(* driver decodes is such a multiple, and the arithmetic on them is exact  *)
(* in IEEE single precision.                                                *)
(*                                                                         *)
(* Three specifications share the variables:                               *)
(*   SpecCodec  the byte/float conversions and readTempD;                  *)
(*   SpecReg    handles, configuration and threshold register operations;  *)
(*   SpecPoll   the one-shot pollers against the millisecond clock         *)
(*              (SpecPollFair adds the scheduling's fairness).             *)
(***************************************************************************)
EXTENDS Integers, Sequences, FiniteSets, TLC

VARIABLES
    _address,    \* the file-scope int _address
    MSByte,      \* the file-scope uint8_t MSByte
    LSByte,      \* the file-scope uint8_t LSByte
    handles,     \* offsets of the DS1631 objects constructed so far
    via,         \* offset the handle of the latest operation was constructed with
    devConfig,   \* the device's configuration register
    bus,         \* commands the latest operation has sent, in order
    op,          \* name of the latest operation
    arg,         \* its argument
    out,         \* its result
    now,         \* millis()
    pc,          \* position of the one-shot call
    which,       \* "float": readTempOneShot, "int": readTempOneShotInt
    lastMillis,  \* the poller's local lastMillis
    elapsed,     \* the poller's local elapsed
    data,        \* the byte readConfig returned last (_data)
    readAt,      \* time of the latest configuration read of the call
    steady       \* whether the call has so far met the "done by 900 ms" scenario

globals  == <<_address, MSByte, LSByte>>
regVars  == <<handles, via, devConfig>>
callVars == <<op, arg, out>>
pollVars == <<now, pc, which, lastMillis, elapsed, data, readAt, steady>>
vars     == <<_address, MSByte, LSByte, handles, via, devConfig, bus, op, arg, out,
              now, pc, which, lastMillis, elapsed, data, readAt, steady>>

(***************************************************************************)
(* Bounds of the model.                                                    *)
(***************************************************************************)
\* Largest magnitude, in sixteenths of a degree, of a float handed to floatToByte.
MaxSixteenths == 2100
\* Largest address offset a handle is constructed with (the chip allows 0..7).
MaxOffset == 1
\* The clock stops advancing at MaxTime ms.
MaxTime == 1101
\* A one-shot call begins no later than MaxStart ms.
MaxStart == 1

(***************************************************************************)
(* Program constants.                                                      *)
(***************************************************************************)
BaseAddress   == 72
CmdStop       == 34     \* 0x22
CmdStart      == 81     \* 0x51
CmdConfig     == 172    \* 0xAC
CmdReadTemp   == 170    \* 0xAA
CmdTH         == 161    \* 0xA1
CmdTL         == 162    \* 0xA2
PollInterval  == 50
TimeoutMs     == 1000
Sentinel      == -32768

\* out, arg and readAt hold <<>> or a one-element tuple.
NoValue == <<>>
NoRead  == <<>>
Bytes   == 0..255

(***************************************************************************)
(* Arithmetic of the C++ types.                                            *)
(***************************************************************************)
\* Conversion of an int to uint8_t.
ToByte(n) == n % 256

\* Conversion of an int to uint16_t.
ToWord(n) == n % 65536

RECURSIVE BitOr(_, _)
BitOr(a, b) ==
    IF a = 0 THEN b
    ELSE IF b = 0 THEN a
    ELSE (IF a % 2 = 1 \/ b % 2 = 1 THEN 1 ELSE 0) + 2 * BitOr(a \div 2, b \div 2)

RECURSIVE BitAnd(_, _)
BitAnd(a, b) ==
    IF a = 0 \/ b = 0 THEN 0
    ELSE (IF a % 2 = 1 /\ b % 2 = 1 THEN 1 ELSE 0) + 2 * BitAnd(a \div 2, b \div 2)

\* int(f) for a float of s sixteenths: truncation toward zero.
TruncToInt(s) == IF s >= 0 THEN s \div 16 ELSE -((-s) \div 16)

\* x >> k on a signed integer: the arithmetic shift of the build.
ShiftRight4(x) == x \div 16

(***************************************************************************)
(* The codec.                                                              *)
(***************************************************************************)
\* byteToFloat: the value returned, in sixteenths, from the two bytes as they
\* are on entry.
ByteToFloat(ms, ls) ==
    LET frac == ls \div 16
    IN  IF ms >= 128 THEN 16 * (ms - 256) + frac
        ELSE 16 * ms + frac

\* byteToFloat leaves LSByte shifted right by four.
ByteToFloatLS(ls) == ls \div 16

\* floatToByte: MSByte = int(f).
FloatToByteMS(s) == ToByte(TruncToInt(s))

\* A floatToByte that forgets the shift into the high nibble.
FloatToByteLSNoShift(s) == ToByte(s - 16 * TruncToInt(s))

\* floatToByte: LSByte = int((f - int(f))/0.0625); LSByte = LSByte << 4.
FloatToByteLS(s) ==
    LET count == s - 16 * TruncToInt(s)
    IN  ToByte(ToByte(count) * 16)

\* A readTempD without the sign correction.
ReadTempDNoSign(ms, ls) == ShiftRight4(ms * 256 + ls)

\* readTempD: the int32_t returned for the two bytes read.
ReadTempDValue(ms, ls) ==
    LET T0 == ms * 256 + ls
        T1 == IF T0 >= 32768 THEN T0 - 65535 ELSE T0
    IN  ShiftRight4(T1)

\* word(MSByte, LSByte)
Word(ms, ls) == ms * 256 + ls

(***************************************************************************)
(* The bus.  A command is one addressed write transaction (opcode and      *)
(* payload) together with the bytes requested back after it, if any.       *)
(***************************************************************************)
Command(c, payload, reply) ==
    [cmd |-> c, addr |-> _address, tx |-> payload, rx |-> reply]

\* stopConversion()
StopConversionCmds == <<Command(CmdStop, <<>>, <<>>)>>

\* startConversion()
StartConversionCmds == <<Command(CmdStart, <<>>, <<>>)>>

\* A writeConfig that does not resume conversion.
WriteConfigNoStart(d) ==
    StopConversionCmds \o <<Command(CmdConfig, <<d>>, <<>>)>>

\* writeConfig(_data)
WriteConfigCmds(d) ==
    StopConversionCmds \o <<Command(CmdConfig, <<d>>, <<>>)>> \o StartConversionCmds

\* readConfig(), the device answering r
ReadConfigCmds(r) == <<Command(CmdConfig, <<>>, <<r>>)>>

\* writeTemperature(f, command), after floatToByte(f)
WriteTemperatureCmds(command, ms, ls) ==
    StopConversionCmds \o <<Command(command, <<ms, ls>>, <<>>)>> \o StartConversionCmds

\* readTemperature(command), the device answering ms, ls
ReadTemperatureCmds(command, ms, ls) == <<Command(command, <<>>, <<ms, ls>>)>>

\* Bytes readConfig can return when the transfer delivers nothing and _data
\* is left uninitialized.
StaleBytes == {90}

\* What readConfig() can return while the device holds dev.
ReadConfigReplies(dev) == {dev} \cup StaleBytes

\* setActiveHigh: the byte written back
ActiveHighByte(config, b) ==
    IF b THEN ToByte(BitOr(config, 2)) ELSE ToByte(BitAnd(config, 255 - 2))

\* setOneShotMode: the byte written back
OneShotByte(config, b) ==
    IF b THEN ToByte(BitOr(config, 1)) ELSE ToByte(BitAnd(config, 255 - 1))

\* setResolution: the byte written back, for res in 9..12
ResolutionByte(config, res) == ToByte(BitOr(config, (res - 9) * 4))

(***************************************************************************)
(* SpecReg: handles and register operations.                               *)
(***************************************************************************)
Offsets == 0..MaxOffset
\* Configuration values among those the source's comments list.
ConfigInputs == {1, 4, 12, 13}
ResInputs == 8..13
ThresholdInputs == {408, -8}

InitReg ==
    /\ _address = 0
    /\ MSByte = 0
    /\ LSByte = 0
    /\ handles = {}
    /\ via = 0
    /\ devConfig \in {0, 140}
    /\ bus = <<>>
    /\ op = "init"
    /\ arg = NoValue
    /\ out = NoValue
    /\ now = 0
    /\ pc = "idle"
    /\ which = "float"
    /\ lastMillis = 0
    /\ elapsed = 0
    /\ data = 0
    /\ readAt = NoRead
    /\ steady = TRUE

\* DS1631::DS1631(Addr)
Construct(Addr) ==
    /\ _address' = Addr + BaseAddress
    /\ handles' = handles \cup {Addr}
    /\ op' = "construct"
    /\ arg' = <<Addr>>
    /\ via' = Addr
    /\ bus' = <<>>
    /\ out' = NoValue
    /\ UNCHANGED <<MSByte, LSByte, devConfig, pollVars>>

StopConversion(h) ==
    /\ h \in handles
    /\ via' = h
    /\ op' = "stopConversion"
    /\ arg' = NoValue
    /\ bus' = StopConversionCmds
    /\ UNCHANGED <<globals, handles, devConfig, pollVars>>
    /\ out' = NoValue

StartConversion(h) ==
    /\ h \in handles
    /\ via' = h
    /\ op' = "startConversion"
    /\ arg' = NoValue
    /\ bus' = StartConversionCmds
    /\ UNCHANGED <<globals, handles, devConfig, pollVars>>
    /\ out' = NoValue

WriteConfig(h, d) ==
    /\ h \in handles
    /\ via' = h
    /\ op' = "writeConfig"
    /\ arg' = <<d>>
    /\ bus' = WriteConfigCmds(d)
    /\ devConfig' = d
    /\ out' = NoValue
    /\ UNCHANGED <<globals, handles, pollVars>>

ReadConfig(h) ==
    /\ h \in handles
    /\ \E r \in ReadConfigReplies(devConfig) :
        /\ data' = r
        /\ out' = <<r>>
        /\ bus' = ReadConfigCmds(r)
    /\ via' = h
    /\ op' = "readConfig"
    /\ arg' = NoValue
    /\ UNCHANGED <<globals, handles, devConfig, now, pc, which, lastMillis,
                   elapsed, readAt, steady>>

\* A setter: readConfig() answered r, then writeConfig(w) of the changed byte.
ReadModifyWrite(h, name, a, r, w) ==
    /\ h \in handles
    /\ r \in ReadConfigReplies(devConfig)
    /\ data' = r
    /\ bus' = ReadConfigCmds(r) \o WriteConfigCmds(w)
    /\ devConfig' = w
    /\ via' = h
    /\ op' = name
    /\ arg' = <<a>>
    /\ out' = NoValue
    /\ UNCHANGED <<globals, handles, now, pc, which, lastMillis,
                   elapsed, readAt, steady>>

SetActiveHigh(h, b) ==
    \E r \in ReadConfigReplies(devConfig) :
        ReadModifyWrite(h, "setActiveHigh", b, r, ActiveHighByte(r, b))

SetOneShotMode(h, b) ==
    \E r \in ReadConfigReplies(devConfig) :
        ReadModifyWrite(h, "setOneShotMode", b, r, OneShotByte(r, b))

SetResolution(h, res) ==
    IF res >= 9 /\ res <= 12
    THEN \E r \in ReadConfigReplies(devConfig) :
            ReadModifyWrite(h, "setResolution", res, r, ResolutionByte(r, res))
    ELSE /\ h \in handles
         /\ via' = h
         /\ op' = "setResolution"
         /\ arg' = <<res>>
         /\ bus' = <<>>
         /\ out' = NoValue
         /\ UNCHANGED <<globals, handles, devConfig, pollVars>>

\* writeTH(f) and writeTL(f)
WriteThreshold(h, name, command, f) ==
    /\ h \in handles
    /\ MSByte' = FloatToByteMS(f)
    /\ LSByte' = FloatToByteLS(f)
    /\ bus' = WriteTemperatureCmds(command, FloatToByteMS(f), FloatToByteLS(f))
    /\ via' = h
    /\ op' = name
    /\ arg' = <<f>>
    /\ out' = NoValue
    /\ UNCHANGED <<_address, handles, devConfig, pollVars>>

WriteTH(h, f) == WriteThreshold(h, "writeTH", CmdTH, f)

WriteTL(h, f) == WriteThreshold(h, "writeTL", CmdTL, f)

NextReg ==
    \/ \E Addr \in Offsets : Construct(Addr)
    \/ \E h \in Offsets : StopConversion(h)
    \/ \E h \in Offsets : StartConversion(h)
    \/ \E h \in Offsets, d \in ConfigInputs : WriteConfig(h, d)
    \/ \E h \in Offsets : ReadConfig(h)
    \/ \E h \in Offsets, b \in BOOLEAN : SetActiveHigh(h, b)
    \/ \E h \in Offsets, b \in BOOLEAN : SetOneShotMode(h, b)
    \/ \E h \in Offsets, res \in ResInputs : SetResolution(h, res)
    \/ \E h \in Offsets, f \in ThresholdInputs : WriteTH(h, f)
    \/ \E h \in Offsets, f \in ThresholdInputs : WriteTL(h, f)

SpecReg == InitReg /\ [][NextReg]_vars

RegisterWrites ==
    {"writeConfig", "writeTH", "writeTL", "setActiveHigh", "setOneShotMode"}

IsRegisterWrite ==
    op \in RegisterWrites \/ (op = "setResolution" /\ arg[1] \in 9..12)

WriteOpcode ==
    IF op = "writeTH" THEN CmdTH ELSE IF op = "writeTL" THEN CmdTL ELSE CmdConfig

\* C5: every register write ends with exactly the three commands
\* stop-conversion, opcode plus payload, start-conversion (the whole of the
\* operation for writeConfig, writeTH and writeTL; preceded only by the
\* configuration read for the setters), so the last command sent is
\* start-conversion.
C5_WriteBracketsConversion ==
    IsRegisterWrite =>
        LET n == Len(bus)
        IN  /\ n = IF op \in {"writeConfig", "writeTH", "writeTL"} THEN 3 ELSE 4
            /\ bus[n - 2].cmd = CmdStop /\ bus[n - 2].tx = <<>>
            /\ bus[n - 1].cmd = WriteOpcode
            /\ Len(bus[n - 1].tx) = IF WriteOpcode = CmdConfig THEN 1 ELSE 2
            /\ bus[n].cmd = CmdStart /\ bus[n].tx = <<>>
            /\ n = 4 => bus[1].cmd = CmdConfig /\ bus[1].tx = <<>> /\ Len(bus[1].rx) = 1
            /\ \A i \in (n - 2)..n : bus[i].rx = <<>>

C5_Witness ==
    /\ op = "setOneShotMode"
    /\ Len(bus) = 4
    /\ bus[4].cmd = CmdStart
    /\ bus[3].cmd = CmdConfig
    /\ bus[3].tx = <<141>>

\* C6 (as claimed): setResolution(res), res in 9..12, writes back a byte whose
\* bits 2-3 equal res - 9 and whose other bits equal those of the byte read.
C6_ResolutionBitsSet ==
    (op = "setResolution" /\ arg[1] \in 9..12) =>
        LET written == bus[3].tx[1]
        IN  /\ (written \div 4) % 4 = arg[1] - 9
            /\ written % 4 = data % 4
            /\ written \div 16 = data \div 16

\* C7 (as claimed): every command issued through a handle constructed with
\* offset Addr is addressed to 72 + Addr.
C7_AddressFixedAtConstruction ==
    \A i \in DOMAIN bus : bus[i].addr = BaseAddress + via

(***************************************************************************)
(* SpecPoll: readTempOneShot and readTempOneShotInt against the clock.     *)
(*                                                                         *)
(* The clock is observed at the instants of TimePoints and moves forward   *)
(* by any amount between two steps of the call.  millis() - lastMillis is  *)
(* computed without wrap-around: the model's times stay far below 2^31.    *)
(* Of a run of consecutive unsuccessful configuration reads, bus keeps the *)
(* latest only, so that it stays bounded while the loop spins.             *)
(***************************************************************************)
TimePoints == {t \in 0..MaxTime : t % PollInterval \in {0, 1}}

\* Bytes the configuration read can deliver (bit 7 clear: 12, 127).
ConfigReplies == {12, 127, 140}

\* Words the temperature read can deliver.
RawReplies == {<<25, 0>>, <<255, 128>>, <<128, 0>>}

InCall == pc \in {"poll", "wait", "read"}
Returned == pc \in {"done", "timeout"}

\* conversionDone(): (_data | 127) == 255
ConversionDone(d) == BitOr(d, 127) = 255

\* millis() - lastMillis
Elapsed(t, start) == t - start

\* An abort test that fires at the deadline itself.
TimedOutAtDeadline(e) == e >= TimeoutMs

\* An abort test with a digit of the deadline dropped.
TimedOutAtHundred(e) == e > 100

\* The abort test moved inside the busy-wait loop, where elapsed < 50.
TimedOutNever(e) == e > TimeoutMs /\ e < PollInterval

\* if (elapsed > 1000)
TimedOut(e) == e > TimeoutMs

\* return -32768, as the float and as the uint16_t the variants return
SentinelOf(w) == IF w = "float" THEN 16 * Sentinel ELSE ToWord(Sentinel)

\* A successful float read that leaves the device converting.
SuccessCmdsNoStop(w, ms, ls) == ReadTemperatureCmds(CmdReadTemp, ms, ls)

\* The commands after the loop: readTempF() or readT(), and for the float
\* variant stopConversion().
SuccessCmds(w, ms, ls) ==
    IF w = "float"
    THEN ReadTemperatureCmds(CmdReadTemp, ms, ls) \o StopConversionCmds
    ELSE ReadTemperatureCmds(CmdReadTemp, ms, ls)

IsConfigRead(c) == c.cmd = CmdConfig /\ c.rx # <<>>

\* bus after a configuration read answered r.
AppendPoll(b, r) ==
    IF IsConfigRead(b[Len(b)]) /\ ~ConversionDone(r)
    THEN SubSeq(b, 1, Len(b) - 1) \o ReadConfigCmds(r)
    ELSE b \o ReadConfigCmds(r)

InitPoll ==
    /\ _address = BaseAddress
    /\ MSByte = 0
    /\ LSByte = 0
    /\ handles = {0}
    /\ via = 0
    /\ devConfig = 0
    /\ bus = <<>>
    /\ op = "init"
    /\ arg = NoValue
    /\ out = NoValue
    /\ now = 0
    /\ pc = "idle"
    /\ which = "float"
    /\ lastMillis = 0
    /\ elapsed = 0
    /\ data = 0
    /\ readAt = NoRead
    /\ steady = TRUE

\* The clock advances; it is followed while a call runs or can still begin.
Tick ==
    /\ InCall \/ now <= MaxStart
    /\ \E t \in TimePoints : t > now /\ now' = t
    /\ UNCHANGED <<globals, regVars, bus, callVars, pc, which, lastMillis,
                   elapsed, data, readAt, steady>>

\* Entry: long lastMillis = millis(); startConversion();
Begin(w) ==
    /\ ~InCall
    /\ now <= MaxStart
    /\ which' = w
    /\ lastMillis' = now
    /\ bus' = StartConversionCmds
    /\ pc' = "poll"
    /\ elapsed' = 0
    /\ readAt' = NoRead
    /\ steady' = TRUE
    /\ op' = IF w = "float" THEN "readTempOneShot" ELSE "readTempOneShotInt"
    /\ out' = NoValue
    /\ data' = 0
    /\ UNCHANGED <<globals, regVars, arg, now>>

\* while ( !conversionDone() ): one configuration read and its test; in the
\* loop body elapsed starts at 0.
Poll ==
    /\ pc = "poll"
    /\ \E r \in ConfigReplies :
        /\ data' = r
        /\ bus' = AppendPoll(bus, r)
        /\ pc' = IF ConversionDone(r) THEN "read" ELSE "wait"
        /\ steady' = (steady /\ IF ConversionDone(r)
                                THEN readAt = NoRead \/ readAt[1] < now
                                ELSE now - lastMillis < 900)
    /\ readAt' = <<now>>
    /\ elapsed' = 0
    /\ UNCHANGED <<globals, regVars, callVars, now, which, lastMillis>>

\* One pass of while (elapsed < 50) elapsed = millis() - lastMillis; and, on
\* leaving it, if (elapsed > 1000) return -32768;  elapsed goes out of scope
\* when the body ends.
Wait ==
    /\ pc = "wait"
    /\ LET e == Elapsed(now, lastMillis)
       IN  IF e < PollInterval
           THEN /\ elapsed' = e
                /\ UNCHANGED <<pc, out, steady>>
           ELSE /\ steady' = (steady /\ now - readAt[1] <= PollInterval)
                /\ IF TimedOut(e)
                   THEN /\ pc' = "timeout"
                        /\ elapsed' = e
                        /\ out' = <<SentinelOf(which)>>
                   ELSE /\ pc' = "poll"
                        /\ elapsed' = 0
                        /\ UNCHANGED out
    /\ UNCHANGED <<globals, regVars, bus, op, arg, now, which, lastMillis,
                   data, readAt>>

\* After the loop: T = readTempF(); stopConversion(); return T;  or
\* readT(); return word(MSByte, LSByte);
Read ==
    /\ pc = "read"
    /\ \E raw \in RawReplies :
        /\ bus' = bus \o SuccessCmds(which, raw[1], raw[2])
        /\ MSByte' = raw[1]
        /\ LSByte' = IF which = "float" THEN ByteToFloatLS(raw[2]) ELSE raw[2]
        /\ out' = IF which = "float"
                  THEN <<ByteToFloat(raw[1], raw[2])>>
                  ELSE <<ToWord(Word(raw[1], raw[2]))>>
    /\ pc' = "done"
    /\ UNCHANGED <<_address, regVars, op, arg, now, which, lastMillis,
                   elapsed, data, readAt, steady>>

NextPoll ==
    \/ Tick
    \/ \E w \in {"float", "int"} : Begin(w)
    \/ Poll
    \/ Wait
    \/ Read

SpecPoll == InitPoll /\ [][NextPoll]_vars

\* The clock keeps advancing and the sequential program takes its next step.
SpecPollFair ==
    /\ SpecPoll
    /\ WF_vars(Tick)
    /\ WF_vars(Poll)
    /\ WF_vars(Wait)
    /\ WF_vars(Read)

\* C1: the sentinel is returned only from a check that sampled more than
\* 1000 ms since the call began (and the float variant returns that value in
\* no other way); a reading is returned only after bit 7 was reported set; and
\* the first check made after 1000 ms with bit 7 still clear returns the
\* sentinel instead of polling again.
C1_SentinelOnlyAfterDeadline ==
    /\ [](pc = "timeout" =>
            /\ elapsed > TimeoutMs
            /\ now - lastMillis > TimeoutMs
            /\ out = <<SentinelOf(which)>>)
    /\ []((pc = "done" /\ which = "float") => out # <<SentinelOf("float")>>)
    /\ [](pc \in {"read", "done"} => ConversionDone(data))
    /\ [][(pc = "wait" /\ pc' # "wait" /\ now - lastMillis > TimeoutMs)
            => pc' = "timeout"]_vars

C1_Witness ==
    pc = "timeout" /\ which = "int" /\ elapsed = TimeoutMs + 1 /\ out = <<32768>>

\* C2: a readTempOneShot call in which bit 7 was reported clear before, and set
\* from, some instant d <= 900 ms, and every check came at most 50 ms after
\* the read before it, returns the value decoded from the temperature read,
\* never the sentinel.
C2_DoneBy900ReturnsReading ==
    (which = "float" /\ steady /\ Returned) =>
        /\ pc = "done"
        /\ LET c == bus[Len(bus) - 1]
           IN  /\ c.cmd = CmdReadTemp
               /\ out = <<ByteToFloat(c.rx[1], c.rx[2])>>
        /\ out # <<SentinelOf("float")>>

C2_Witness ==
    /\ pc = "done"
    /\ which = "float"
    /\ steady
    /\ readAt = <<lastMillis + 900>>
    /\ Len(bus) = 5
    /\ out = <<-8>>

\* C3 (as claimed): two consecutive configuration reads of one call are at
\* least 50 ms apart.
C3_PollsFiftyApart ==
    [][(pc = "poll" /\ pc' # "poll" /\ readAt # NoRead)
            => now - readAt[1] >= PollInterval]_vars

\* C4: a call's first command is its only start-conversion; a successful call
\* then sends configuration reads of which exactly the last reported bit 7
\* set, then the temperature read, and then, for readTempOneShot only,
\* stop-conversion as the last command; a timed-out call sends nothing but
\* the start and unsuccessful configuration reads.
C4_CommandOrder ==
    (InCall \/ Returned) =>
        LET n == Len(bus)
            k == IF which = "float" THEN n - 1 ELSE n
        IN  /\ bus[1].cmd = CmdStart
            /\ \A i \in 2..n : bus[i].cmd # CmdStart
            /\ pc = "done" =>
                /\ k >= 3
                /\ bus[k].cmd = CmdReadTemp
                /\ \A i \in 2..(k - 1) :
                    /\ IsConfigRead(bus[i])
                    /\ ConversionDone(bus[i].rx[1]) <=> (i = k - 1)
                /\ which = "float" => bus[n].cmd = CmdStop
                /\ which = "int" => \A i \in 1..n : bus[i].cmd # CmdStop
            /\ pc = "timeout" =>
                \A i \in 2..n : IsConfigRead(bus[i]) /\ ~ConversionDone(bus[i].rx[1])

C4_Witness ==
    /\ pc = "done"
    /\ which = "float"
    /\ Len(bus) = 5
    /\ bus[5].cmd = CmdStop
    /\ bus[2].rx = <<127>>

\* C10: with the clock advancing and the program taking its steps, every
\* one-shot call returns.
C10_CallReturns == InCall ~> Returned

C10_Witness ==
    pc = "timeout" /\ which = "float" /\ data = 12 /\ now = MaxTime

(***************************************************************************)
(* SpecCodec: one conversion of one input.                                 *)
(***************************************************************************)
\* Raw words a read can deliver: every MSByte, and for LSByte the device's
\* values (low nibble zero) and a few that a failed transfer leaves.
RawLS == {16 * n : n \in 0..15} \cup {1, 8, 15, 255}
FloatInputs == (-MaxSixteenths)..MaxSixteenths
CodecInputs ==
    [kind : {"raw"}, ms : Bytes, ls : RawLS] \cup [kind : {"float"}, f : FloatInputs]

InitCodec ==
    /\ _address = BaseAddress
    /\ MSByte = 0
    /\ LSByte = 0
    /\ handles = {0}
    /\ via = 0
    /\ devConfig = 0
    /\ bus = <<>>
    /\ op = "init"
    /\ arg \in CodecInputs
    /\ out = NoValue
    /\ now = 0
    /\ pc = "idle"
    /\ which = "float"
    /\ lastMillis = 0
    /\ elapsed = 0
    /\ data = 0
    /\ readAt = NoRead
    /\ steady = TRUE

\* readTempD(): readT() stores the two bytes, then the word is scaled.
ReadTempD ==
    /\ op = "init"
    /\ arg.kind = "raw"
    /\ MSByte' = arg.ms
    /\ LSByte' = arg.ls
    /\ out' = <<ReadTempDValue(arg.ms, arg.ls)>>
    /\ op' = "readTempD"
    /\ UNCHANGED <<_address, regVars, bus, arg, pollVars>>

\* readTempF(): readT() stores the two bytes, then byteToFloat() decodes them.
ReadTempF ==
    /\ op = "init"
    /\ arg.kind = "raw"
    /\ MSByte' = arg.ms
    /\ LSByte' = ByteToFloatLS(arg.ls)
    /\ out' = <<ByteToFloat(arg.ms, arg.ls)>>
    /\ op' = "readTempF"
    /\ UNCHANGED <<_address, regVars, bus, arg, pollVars>>

\* floatToByte(f)
FloatToByte ==
    /\ op = "init"
    /\ arg.kind = "float"
    /\ MSByte' = FloatToByteMS(arg.f)
    /\ LSByte' = FloatToByteLS(arg.f)
    /\ op' = "floatToByte"
    /\ UNCHANGED <<_address, regVars, bus, arg, out, pollVars>>

\* byteToFloat() on the bytes floatToByte left.
ByteToFloatBack ==
    /\ op = "floatToByte"
    /\ out' = <<ByteToFloat(MSByte, LSByte)>>
    /\ LSByte' = ByteToFloatLS(LSByte)
    /\ op' = "roundTrip"
    /\ UNCHANGED <<_address, MSByte, regVars, bus, arg, pollVars>>

NextCodec == ReadTempD \/ ReadTempF \/ FloatToByte \/ ByteToFloatBack

SpecCodec == InitCodec /\ [][NextCodec]_vars

\* C8: for every raw word whose LSByte has a zero low nibble, readTempD returns
\* sixteen times the Celsius value byteToFloat decodes from the same bytes,
\* 16 * (MSByte if MSByte < 128 else MSByte - 256) + (LSByte >> 4).
C8_ReadTempDIsSixteenths ==
    (op = "readTempD" /\ LSByte % 16 = 0) =>
        /\ out = <<ByteToFloat(MSByte, LSByte)>>
        /\ out[1] = 16 * (IF MSByte < 128 THEN MSByte ELSE MSByte - 256) + (LSByte \div 16)

C8_Witness ==
    op = "readTempD" /\ MSByte = 255 /\ LSByte = 128 /\ out = <<-8>>

\* C9: for every non-negative f below 128 degrees (a count of sixteenths),
\* floatToByte(f) leaves MSByte = whole part and LSByte = sixteenths << 4, and
\* byteToFloat() then yields exactly f.
C9_RoundTripNonNegative ==
    (arg.kind = "float" /\ arg.f >= 0 /\ arg.f < 128 * 16) =>
        /\ op = "floatToByte" => MSByte = arg.f \div 16 /\ LSByte = 16 * (arg.f % 16)
        /\ op = "roundTrip" => out = <<arg.f>> /\ MSByte = arg.f \div 16

C9_Witness ==
    op = "roundTrip" /\ arg.kind = "float" /\ arg.f = 16 * 25 + 8 /\ out = <<408>> /\ MSByte = 25

====
